---- MODULE Spec2Model ----
(***************************************************************************)
(* Rotosolve / Rotoselect (demonstrations_v2/tutorial_rotoselect/demo.py). *)
(*                                                                         *)
(* The cost function is a black box to the optimizers.  Its values are     *)
(* modelled by integers (arctan2 is invariant under a common positive      *)
(* scale of its arguments) and the rotation angles are modelled exactly:   *)
(* the record [q, x, y] with x > 0, y >= 0 and gcd(x, y) = 1 is the real   *)
(* number q*(pi/2) + arctan(y/x), whose second summand lies in [0, pi/2).  *)
(* Indices d are the 0-based indices of the source; TLA+ sequences are     *)
(* 1-based, so entry d of a Python list is entry Idx(d) of the sequence.   *)
(***************************************************************************)
EXTENDS Integers, Sequences, FiniteSets, TLC

\* len(init_params): the two rotation parameters of the ansatz
D == 2

\* number of cycles of each optimization loop (30 in the source)
n_steps == 2

\* the cost function returns one of 0 .. MaxCost
MaxCost == 1

\* number of direct calls of opt_theta made by the caller in SpecCall
MaxCalls == 2

CostVals == 0 .. MaxCost

---------------------------------------------------------------------------
\* Exact angle arithmetic

RECURSIVE Gcd(_, _)
Gcd(a, b) == IF b = 0 THEN a ELSE Gcd(b, a % b)

\* the angle q*(pi/2) + arctan(y/x) for x > 0, y >= 0
Ang(q, x, y) == [q |-> q, x |-> x \div Gcd(x, y), y |-> y \div Gcd(x, y)]

Zero == Ang(0, 1, 0)

HalfPi == Ang(1, 1, 0)

MinusHalfPi == Ang(-1, 1, 0)

Pi == Ang(2, 1, 0)

\* np.arctan2(Y, X): the angle of the point (X, Y), in (-pi, pi]; 0 at the origin
arctan2(Y, X) ==
    IF X = 0 /\ Y = 0 THEN Zero
    ELSE IF X > 0 /\ Y >= 0 THEN Ang(0, X, Y)
    ELSE IF X <= 0 /\ Y > 0 THEN Ang(1, Y, -X)
    ELSE IF X < 0 /\ Y = 0 THEN Pi
    ELSE IF X < 0 /\ Y < 0 THEN Ang(-2, -X, -Y)
    ELSE Ang(-1, -Y, X)

\* -a
Neg(a) ==
    IF a.y = 0 THEN [q |-> -a.q, x |-> 1, y |-> 0]
    ELSE [q |-> -a.q - 1, x |-> a.y, y |-> a.x]

\* -np.pi / 2.0 - a
MinusHalfPiMinus(a) == [Neg(a) EXCEPT !.q = @ - 1]

\* t <= -np.pi
LeqMinusPi(t) == t.q < -2 \/ (t.q = -2 /\ t.y = 0)

\* t + 2 * np.pi
PlusTwoPi(t) == [t EXCEPT !.q = @ + 4]

\* t lies in the half-open interval (-pi, pi]
InHalfOpen(t) ==
    /\ t.q > -2 \/ (t.q = -2 /\ t.y > 0)
    /\ t.q < 2 \/ (t.q = 2 /\ t.y = 0)

\* "if params[d] <= -np.pi: params[d] += 2 * np.pi", with the slip < for <=
Restrict_strict(t) == IF t.q < -2 THEN PlusTwoPi(t) ELSE t

\* if params[d] <= -np.pi: params[d] += 2 * np.pi
Restrict(t) == IF LeqMinusPi(t) THEN PlusTwoPi(t) ELSE t

\* the closed form with the sign of the arctangent flipped: -pi/2 + a
OptAngle_plus(M0, Mp, Mm) ==
    Restrict([arctan2(2 * M0 - Mp - Mm, Mp - Mm) EXCEPT !.q = @ - 1])

\* a = arctan2(2 M_0 - M_0_plus - M_0_minus, M_0_plus - M_0_minus);
\* params[d] = -pi/2 - a, brought into (-pi, pi]
OptAngle(M0, Mp, Mm) ==
    Restrict(MinusHalfPiMinus(arctan2(2 * M0 - Mp - Mm, Mp - Mm)))

---------------------------------------------------------------------------
\* Python indexing of a list of length D

IndexOk(d) == -D <= d /\ d < D

Idx(d) == IF d >= 0 THEN d + 1 ELSE D + d + 1

---------------------------------------------------------------------------
\* The circuit of cost_rsel

Tags == {"X", "Y", "Z"}

\* RGen queues the rotation named by generator; no branch matches another tag
RGen(param, generator, wires) ==
    IF generator = "X" THEN <<[op |-> "RX", wires |-> wires]>>
    ELSE IF generator = "Y" THEN <<[op |-> "RY", wires |-> wires]>>
    ELSE IF generator = "Z" THEN <<[op |-> "RZ", wires |-> wires]>>
    ELSE <<>>

\* the operations ansatz_rsel queues
ansatz_rsel(p, g) ==
    RGen(p[1], g[1], 0) \o RGen(p[2], g[2], 1) \o <<[op |-> "CNOT", wires |-> 0]>>

\* the fixed ansatz: RX on wire 0, RY on wire 1
AnsatzGens == <<"X", "Y">>

\* the operations the fixed ansatz queues
ansatz(p) ==
    <<[op |-> "RX", wires |-> 0], [op |-> "RY", wires |-> 1], [op |-> "CNOT", wires |-> 0]>>

\* for generator in ["X", "Y", "Z"]
Candidates == <<"X", "Y", "Z">>

---------------------------------------------------------------------------
\* A cost that is a sinusoid of period 2 pi in every parameter:
\*   cost(p) = sum over d of A[d] sin(p[d]) + B[d] cos(p[d]),
\* with (A[d], B[d]) an integer point of the circle of radius Amp or the origin.
\* Its values are exact at the angles whose direction is an integer point of
\* that circle; SinCost is Amp times the cost.

Amp == 5

CirclePoints ==
    {v \in (-Amp .. Amp) \X (-Amp .. Amp) : v[1] * v[1] + v[2] * v[2] = Amp * Amp}

Coefs == CirclePoints \cup {<<0, 0>>}

\* the angles of the circle's integer points, each in (-pi, pi]
SinAngles == {arctan2(v[2], v[1]) : v \in CirclePoints}

\* Amp * (cos r, sin r) for the residue r = arctan(y/x) of angle a
Base(a) ==
    CHOOSE v \in (0 .. Amp) \X (0 .. Amp) :
        /\ v[1] * v[1] + v[2] * v[2] = Amp * Amp
        /\ v[1] * a.y = v[2] * a.x

\* v turned by q quarter turns
Rot(v, q) ==
    IF q % 4 = 0 THEN v
    ELSE IF q % 4 = 1 THEN <<-v[2], v[1]>>
    ELSE IF q % 4 = 2 THEN <<-v[1], -v[2]>>
    ELSE <<v[2], -v[1]>>

\* Amp * cos(a)
CosA(a) == Rot(Base(a), a.q)[1]

\* Amp * sin(a)
SinA(a) == Rot(Base(a), a.q)[2]

\* Amp * (A sin(a) + B cos(a))
Term(c, a) == c[1] * SinA(a) + c[2] * CosA(a)

RECURSIVE SinSum(_, _, _)
SinSum(co, p, k) == IF k = 0 THEN 0 ELSE Term(co[k], p[k]) + SinSum(co, p, k - 1)

SinCost(co, p) == SinSum(co, p, D)

---------------------------------------------------------------------------
VARIABLES
    prog,             \* what runs: the "rotosolve" or the "rotoselect" loop of the script,
                      \* one rotoselect_cycle ("cycle"), or direct calls of opt_theta ("call")
    pc,               \* the statement about to be executed
    oracle,           \* the cost function: [kind, co]
    memo,             \* kind "exact": the values the cost function has returned so far
    params,           \* params_rsol / params_rsel
    generators,       \* generators
    d,                \* the index passed to opt_theta / optimal_theta_and_gen_helper
    gi,               \* position of the for loop over Candidates
    i,                \* iterations of the optimization loop completed
    M_0,              \* local M_0
    M_0_plus,         \* local M_0_plus
    params_opt_d,     \* local params_opt_d
    params_opt_cost,  \* local params_opt_cost
    generators_opt_d, \* local generators_opt_d
    costs,            \* costs_rotosolve / costs_rsel
    err,              \* the exception that ended the run, or "none"
    tape,             \* the operations queued by the latest circuit evaluation
    calls,            \* history: cost evaluations since the cycle (or the run) began
    probes,           \* history: params[d] at each cost evaluation of the current invocation
    last,             \* history: the invocation of opt_theta / rotosolve that just returned
    cands,            \* history: the candidates evaluated for the index last processed
    recAt,            \* history: the number of completed cycles at each append to costs
    cycles,           \* history: the number of completed cycles
    done              \* history: the direct calls of opt_theta that returned

vars ==
    <<prog, pc, oracle, memo, params, generators, d, gi, i, M_0, M_0_plus,
      params_opt_d, params_opt_cost, generators_opt_d, costs, err, tape,
      calls, probes, last, cands, recAt, cycles, done>>

Point(p, g) == [p |-> p, g |-> g]

\* the values one evaluation of the cost function at pt can return:
\*   "shots": any value, every time (a device with shots=1000 samples);
\*   "exact": any value the first time, the same value ever after;
\*   "sin":   the value of the sinusoid
Returned(pt) ==
    IF oracle.kind = "shots" THEN CostVals
    ELSE IF oracle.kind = "exact"
         THEN (IF pt \in DOMAIN memo THEN {memo[pt]} ELSE CostVals)
         ELSE {SinCost(oracle.co, pt.p)}

Remember(pt, v) ==
    IF oracle.kind = "exact"
    THEN [x \in DOMAIN memo \cup {pt} |-> IF x = pt THEN v ELSE memo[x]]
    ELSE memo

NoLast == [fn |-> "none", d |-> 0, n |-> 0, probes |-> <<>>]

\* init_params = [0.3, 0.25], as arctan(1/3) = 0.32 and arctan(1/4) = 0.245;
\* and a vector outside (-pi, pi]: [3 pi / 2, -pi]
InitParams ==
    { <<Ang(0, 3, 1), Ang(0, 4, 1)>>, <<Ang(3, 1, 0), Ang(-2, 1, 0)>> }

\* initial vectors at which the sinusoid is exact
SinInitParams ==
    [1 .. D -> {a \in SinAngles : a.q = 0}] \cup {<<Ang(3, 1, 0), Ang(-2, 1, 0)>>}

\* init_generators = ["X", "Y"]
init_generators == <<"X", "Y">>

\* the tags RGen may be handed: X, Y, Z, and one it does not know
AnyTag == Tags \cup {"H"}

Start(pr, orc, p, g) ==
    /\ prog = pr
    /\ pc = (IF pr = "rotosolve" THEN "rsol_loop"
             ELSE IF pr = "rotoselect" THEN "rsel_loop"
             ELSE IF pr = "cycle" THEN "h_M0" ELSE "idle")
    /\ oracle = orc
    /\ memo = << >>
    /\ params = p
    /\ generators = g
    /\ d = 0
    /\ gi = 1
    /\ i = 0
    /\ M_0 = 0
    /\ M_0_plus = 0
    /\ params_opt_d = Zero
    /\ params_opt_cost = 0
    /\ generators_opt_d = "X"
    /\ costs = << >>
    /\ err = "none"
    /\ tape = << >>
    /\ calls = 0
    /\ probes = << >>
    /\ last = NoLast
    /\ cands = << >>
    /\ recAt = << >>
    /\ cycles = 0
    /\ done = << >>

NoCo == [k \in 1 .. D |-> <<0, 0>>]

\* the script: the Rotosolve loop, or the Rotoselect loop, on the sampling device
Init ==
    \E pr \in {"rotosolve", "rotoselect"}, p \in InitParams :
        Start(pr, [kind |-> "shots", co |-> NoCo], p, init_generators)

\* direct calls of opt_theta on a cost function that is a function of its arguments
InitCall ==
    \E p \in InitParams :
        Start("call", [kind |-> "exact", co |-> NoCo], p, init_generators)

\* the Rotosolve loop on a sinusoidal cost
InitSin ==
    \E co \in [1 .. D -> Coefs], p \in SinInitParams :
        Start("rotosolve", [kind |-> "sin", co |-> co], p, init_generators)

\* one call of rotoselect_cycle, from any assignment of X, Y, Z
InitCycle ==
    \E g \in [1 .. D -> Tags], p \in InitParams :
        Start("cycle", [kind |-> "shots", co |-> NoCo], p, g)

\* the Rotoselect loop started from any assignment of tags
InitGen ==
    \E g \in [1 .. D -> AnyTag], p \in InitParams :
        Start("rotoselect", [kind |-> "shots", co |-> NoCo], p, g)

---------------------------------------------------------------------------
\* The decisions of the code

\* the loop runs one iteration too many
LoopContinues_off(k) == k <= n_steps

\* for i in range(n_steps): another iteration follows k completed ones
LoopContinues(k) == k < n_steps

\* the first probe is made at the current value of params[d]
Probe_keep(k, cur) ==
    IF k = 1 THEN cur ELSE IF k = 2 THEN HalfPi ELSE MinusHalfPi

\* the value opt_theta gives params[d] before its k-th evaluation of the cost
Probe(k, cur) ==
    IF k = 1 THEN Zero ELSE IF k = 2 THEN HalfPi ELSE MinusHalfPi

\* the incumbent is replaced by every candidate: the last one tried wins
Replace_always(generator, params_cost, opt_cost) ==
    generator = "X" \/ params_cost <= opt_cost \/ params_cost > opt_cost

\* the incumbent is replaced only by a strictly better candidate
Replace_strict(generator, params_cost, opt_cost) ==
    generator = "X" \/ params_cost < opt_cost

\* if generator == "X" or params_cost <= params_opt_cost
Replace(generator, params_cost, opt_cost) ==
    generator = "X" \/ params_cost <= opt_cost

---------------------------------------------------------------------------
\* Rotosolve

\* for i in range(n_steps): costs_rotosolve.append(cost(params_rsol)), then
\* rotosolve_cycle is entered with d = 0
RsolRecord ==
    /\ pc = "rsol_loop"
    /\ LoopContinues(i)
    /\ \E v \in Returned(Point(params, AnsatzGens)) :
          /\ costs' = Append(costs, v)
          /\ memo' = Remember(Point(params, AnsatzGens), v)
    /\ tape' = ansatz(params)
    /\ recAt' = Append(recAt, cycles)
    /\ calls' = 0
    /\ d' = 0
    /\ pc' = "ot_M0"
    /\ UNCHANGED <<prog, oracle, params, generators, gi, i, M_0, M_0_plus,
                   params_opt_d, params_opt_cost, generators_opt_d, err,
                   probes, last, cands, cycles, done>>

\* range(n_steps) is exhausted
RsolExit ==
    /\ pc = "rsol_loop"
    /\ ~LoopContinues(i)
    /\ pc' = "done"
    /\ UNCHANGED <<prog, oracle, memo, params, generators, d, gi, i, M_0, M_0_plus,
                   params_opt_d, params_opt_cost, generators_opt_d, costs, err, tape,
                   calls, probes, last, cands, recAt, cycles, done>>

\* opt_theta: params[d] = 0.0; M_0 = cost(params).  The store raises IndexError
\* when d is no index of params.
OtM0 ==
    /\ pc = "ot_M0"
    /\ IF ~IndexOk(d)
       THEN /\ err' = "IndexError"
            /\ pc' = "aborted"
            /\ UNCHANGED <<params, memo, M_0, tape, calls, probes, last>>
       ELSE /\ params' = [params EXCEPT ![Idx(d)] = Probe(1, params[Idx(d)])]
            /\ \E v \in Returned(Point(params', AnsatzGens)) :
                  /\ M_0' = v
                  /\ memo' = Remember(Point(params', AnsatzGens), v)
            /\ tape' = ansatz(params')
            /\ calls' = calls + 1
            /\ probes' = <<params'[Idx(d)]>>
            /\ last' = NoLast
            /\ pc' = "ot_plus"
            /\ err' = err
    /\ UNCHANGED <<prog, oracle, generators, d, gi, i, M_0_plus,
                   params_opt_d, params_opt_cost, generators_opt_d, costs,
                   cands, recAt, cycles, done>>

\* opt_theta: params[d] = np.pi / 2.0; M_0_plus = cost(params)
OtPlus ==
    /\ pc = "ot_plus"
    /\ params' = [params EXCEPT ![Idx(d)] = Probe(2, params[Idx(d)])]
    /\ \E v \in Returned(Point(params', AnsatzGens)) :
          /\ M_0_plus' = v
          /\ memo' = Remember(Point(params', AnsatzGens), v)
    /\ tape' = ansatz(params')
    /\ calls' = calls + 1
    /\ probes' = Append(probes, params'[Idx(d)])
    /\ pc' = "ot_minus"
    /\ UNCHANGED <<prog, oracle, generators, d, gi, i, M_0,
                   params_opt_d, params_opt_cost, generators_opt_d, costs, err,
                   last, cands, recAt, cycles, done>>

\* opt_theta: params[d] = -np.pi / 2.0; M_0_minus = cost(params); params[d] is set
\* to the closed form and opt_theta returns: to rotosolve_cycle, which goes on to
\* d + 1 or returns params to the loop, or to the caller of a direct call
OtMinus ==
    /\ pc = "ot_minus"
    /\ LET probe == [params EXCEPT ![Idx(d)] = Probe(3, params[Idx(d)])]
       IN \E v \in Returned(Point(probe, AnsatzGens)) :
             /\ params' = [params EXCEPT ![Idx(d)] = OptAngle(M_0, M_0_plus, v)]
             /\ memo' = Remember(Point(probe, AnsatzGens), v)
             /\ tape' = ansatz(probe)
             /\ last' = [fn |-> "opt_theta", d |-> d, n |-> Len(probes) + 1,
                         probes |-> Append(probes, probe[Idx(d)])]
    /\ calls' = calls + 1
    /\ probes' = << >>
    /\ M_0' = 0
    /\ M_0_plus' = 0
    /\ IF prog = "call"
       THEN /\ done' = Append(done, [d |-> d, p |-> params'])
            /\ pc' = "idle"
            /\ UNCHANGED <<d, i, cycles>>
       ELSE /\ done' = done
            /\ IF d + 1 < D
               THEN /\ d' = d + 1
                    /\ pc' = "ot_M0"
                    /\ UNCHANGED <<i, cycles>>
               ELSE /\ d' = 0
                    /\ i' = i + 1
                    /\ cycles' = cycles + 1
                    /\ pc' = "rsol_loop"
    /\ UNCHANGED <<prog, oracle, generators, gi,
                   params_opt_d, params_opt_cost, generators_opt_d, costs, err,
                   cands, recAt>>

\* a caller invokes opt_theta(d, params, cost) with an index of its choice
CallOptTheta ==
    /\ pc = "idle"
    /\ Len(done) < MaxCalls
    /\ \E dd \in (-D - 1) .. D : d' = dd
    /\ pc' = "ot_M0"
    /\ UNCHANGED <<prog, oracle, memo, params, generators, gi, i, M_0, M_0_plus,
                   params_opt_d, params_opt_cost, generators_opt_d, costs, err, tape,
                   calls, probes, last, cands, recAt, cycles, done>>

---------------------------------------------------------------------------
\* Rotoselect

\* for _ in range(n_steps): costs_rsel.append(cost_rsel(params_rsel, generators)),
\* then rotoselect_cycle is entered with d = 0
RselRecord ==
    /\ pc = "rsel_loop"
    /\ LoopContinues(i)
    /\ \E v \in Returned(Point(params, generators)) :
          /\ costs' = Append(costs, v)
          /\ memo' = Remember(Point(params, generators), v)
    /\ tape' = ansatz_rsel(params, generators)
    /\ recAt' = Append(recAt, cycles)
    /\ calls' = 0
    /\ d' = 0
    /\ pc' = "h_M0"
    /\ UNCHANGED <<prog, oracle, params, generators, gi, i, M_0, M_0_plus,
                   params_opt_d, params_opt_cost, generators_opt_d, err,
                   probes, last, cands, cycles, done>>

\* range(n_steps) is exhausted
RselExit ==
    /\ pc = "rsel_loop"
    /\ ~LoopContinues(i)
    /\ pc' = "done"
    /\ UNCHANGED <<prog, oracle, memo, params, generators, d, gi, i, M_0, M_0_plus,
                   params_opt_d, params_opt_cost, generators_opt_d, costs, err, tape,
                   calls, probes, last, cands, recAt, cycles, done>>

\* optimal_theta_and_gen_helper: params[d] = 0.0; M_0 = cost(params, generators);
\* the for loop over the generators begins
HelperM0 ==
    /\ pc = "h_M0"
    /\ IF ~IndexOk(d)
       THEN /\ err' = "IndexError"
            /\ pc' = "aborted"
            /\ UNCHANGED <<params, memo, M_0, tape, calls, gi, cands>>
       ELSE /\ params' = [params EXCEPT ![Idx(d)] = Zero]
            /\ \E v \in Returned(Point(params', generators)) :
                  /\ M_0' = v
                  /\ memo' = Remember(Point(params', generators), v)
            /\ tape' = ansatz_rsel(params', generators)
            /\ calls' = calls + 1
            /\ gi' = 1
            /\ cands' = << >>
            /\ pc' = "rs_plus"
            /\ err' = err
    /\ UNCHANGED <<prog, oracle, generators, d, i, M_0_plus,
                   params_opt_d, params_opt_cost, generators_opt_d, costs,
                   probes, last, recAt, cycles, done>>

\* generators[d] = generator, and rotosolve is entered:
\* params[d] = np.pi / 2.0; M_0_plus = cost(params, generators)
RsPlus ==
    /\ pc = "rs_plus"
    /\ generators' = [generators EXCEPT ![Idx(d)] = Candidates[gi]]
    /\ params' = [params EXCEPT ![Idx(d)] = HalfPi]
    /\ \E v \in Returned(Point(params', generators')) :
          /\ M_0_plus' = v
          /\ memo' = Remember(Point(params', generators'), v)
    /\ tape' = ansatz_rsel(params', generators')
    /\ calls' = calls + 1
    /\ probes' = <<HalfPi>>
    /\ last' = NoLast
    /\ pc' = "rs_minus"
    /\ UNCHANGED <<prog, oracle, d, gi, i, M_0,
                   params_opt_d, params_opt_cost, generators_opt_d, costs, err,
                   cands, recAt, cycles, done>>

\* rotosolve: params[d] = -np.pi / 2.0; M_0_minus = cost(params, generators);
\* params[d] is set to the closed form
RsMinus ==
    /\ pc = "rs_minus"
    /\ LET probe == [params EXCEPT ![Idx(d)] = MinusHalfPi]
       IN \E v \in Returned(Point(probe, generators)) :
             /\ params' = [params EXCEPT ![Idx(d)] = OptAngle(M_0, M_0_plus, v)]
             /\ memo' = Remember(Point(probe, generators), v)
             /\ tape' = ansatz_rsel(probe, generators)
    /\ calls' = calls + 1
    /\ probes' = Append(probes, MinusHalfPi)
    /\ M_0_plus' = 0
    /\ pc' = "rs_cost"
    /\ UNCHANGED <<prog, oracle, generators, d, gi, i, M_0,
                   params_opt_d, params_opt_cost, generators_opt_d, costs, err,
                   last, cands, recAt, cycles, done>>

\* rotosolve: return cost(params, generators); the helper compares the value with
\* the incumbent's and goes on to the next generator, or leaves the loop
RsCost ==
    /\ pc = "rs_cost"
    /\ \E v \in Returned(Point(params, generators)) :
          /\ memo' = Remember(Point(params, generators), v)
          /\ IF Replace(Candidates[gi], v, params_opt_cost)
             THEN /\ params_opt_d' = params[Idx(d)]
                  /\ params_opt_cost' = v
                  /\ generators_opt_d' = Candidates[gi]
             ELSE UNCHANGED <<params_opt_d, params_opt_cost, generators_opt_d>>
          /\ cands' = IF prog = "cycle"
                       THEN Append(cands, [gen |-> Candidates[gi],
                                           theta |-> params[Idx(d)], cost |-> v])
                       ELSE cands
    /\ tape' = ansatz_rsel(params, generators)
    /\ calls' = calls + 1
    /\ last' = [fn |-> "rotosolve", d |-> d, n |-> Len(probes) + 1,
                probes |-> Append(probes, params[Idx(d)])]
    /\ probes' = << >>
    /\ IF gi < Len(Candidates)
       THEN /\ gi' = gi + 1
            /\ pc' = "rs_plus"
       ELSE /\ gi' = 1
            /\ pc' = "h_ret"
    /\ UNCHANGED <<prog, oracle, params, generators, d, i, M_0, M_0_plus,
                   costs, err, recAt, cycles, done>>

\* return params_opt_d, generators_opt_d; rotoselect_cycle stores the pair in
\* params[d], generators[d] and goes on to d + 1, or returns to the loop
HelperReturn ==
    /\ pc = "h_ret"
    /\ params' = [params EXCEPT ![Idx(d)] = params_opt_d]
    /\ generators' = [generators EXCEPT ![Idx(d)] = generators_opt_d]
    /\ M_0' = 0
    /\ params_opt_d' = Zero
    /\ params_opt_cost' = 0
    /\ generators_opt_d' = "X"
    /\ last' = NoLast
    /\ IF d + 1 < D
       THEN /\ d' = d + 1
            /\ pc' = "h_M0"
            /\ UNCHANGED <<i, cycles>>
       ELSE /\ d' = 0
            /\ i' = i + 1
            /\ cycles' = cycles + 1
            /\ pc' = IF prog = "cycle" THEN "done" ELSE "rsel_loop"
    /\ UNCHANGED <<prog, oracle, memo, gi, M_0_plus, costs, err, tape,
                   calls, probes, cands, recAt, done>>

---------------------------------------------------------------------------
NextRsol == RsolRecord \/ RsolExit \/ OtM0 \/ OtPlus \/ OtMinus

NextRsel == RselRecord \/ RselExit \/ HelperM0 \/ RsPlus \/ RsMinus \/ RsCost \/ HelperReturn

Next == NextRsol \/ NextRsel

NextCall == CallOptTheta \/ OtM0 \/ OtPlus \/ OtMinus

Spec == Init /\ [][Next]_vars

SpecCall == InitCall /\ [][NextCall]_vars

SpecSin == InitSin /\ [][NextRsol]_vars

SpecGen == InitGen /\ [][NextRsel]_vars

NextCycle == HelperM0 \/ RsPlus \/ RsMinus \/ RsCost \/ HelperReturn

SpecCycle == InitCycle /\ [][NextCycle]_vars

---------------------------------------------------------------------------
\* Rotoselect: the choice of the generator

\* index e has just been processed by rotoselect_cycle: the next index's first
\* evaluation is about to be made, or the cycle has returned
Committed(e) ==
    /\ Len(cands) = Len(Candidates)
    /\ \/ pc = "h_M0" /\ d = e + 1
       \/ pc = "done" /\ e = D - 1

MinCandCost == CHOOSE m \in {cands[k].cost : k \in 1 .. Len(cands)} :
                   \A k \in 1 .. Len(cands) : m <= cands[k].cost

LastMin == CHOOSE k \in 1 .. Len(cands) :
               /\ cands[k].cost = MinCandCost
               /\ \A j \in 1 .. Len(cands) : cands[j].cost = MinCandCost => j <= k

\* C1: when index e has been processed, (params[e], generators[e]) is one of the
\* three candidates tried, for X, Y and Z in this order, and no candidate was
\* evaluated to a smaller cost
C1_CommitsMinimalCandidate ==
    \A e \in 0 .. D - 1 :
        Committed(e) =>
            /\ [k \in 1 .. Len(cands) |-> cands[k].gen] = Candidates
            /\ \E k \in 1 .. Len(cands) :
                  /\ cands[k].gen = generators[e + 1]
                  /\ cands[k].theta = params[e + 1]
                  /\ \A j \in 1 .. Len(cands) : cands[k].cost <= cands[j].cost

\* a cycle has returned with X committed for the last index, Z's cost being larger
C1_Witness ==
    /\ Committed(D - 1)
    /\ generators[D] = "X"
    /\ cands[1].cost < cands[3].cost
    /\ cands[1].cost <= cands[2].cost

\* C2: among the candidates of minimal cost the one enumerated last is committed;
\* when the three costs are equal, that is Z
C2_LastMinimalWins ==
    \A e \in 0 .. D - 1 :
        Committed(e) =>
            /\ generators[e + 1] = Candidates[LastMin]
            /\ params[e + 1] = cands[LastMin].theta
            /\ (\A k \in 1 .. Len(cands) : cands[k].cost = cands[1].cost)
                   => generators[e + 1] = "Z"

\* the three candidates of index 0 had the same cost, and Z is committed
C2_Witness ==
    /\ Committed(0)
    /\ \A k \in 1 .. Len(cands) : cands[k].cost = cands[1].cost
    /\ generators[1] = "Z"

\* C3: a cycle of Rotoselect that has returned made 7 evaluations of the cost
\* for each of its D indices
C3_SevenCallsPerIndex ==
    (prog \in {"rotoselect", "cycle"} /\ pc \in {"rsel_loop", "done"} /\ cycles >= 1)
        => calls = 7 * D

\* C4: an invocation of rotosolve (M_0 supplied) makes 2 evaluations of the cost;
\* an invocation of opt_theta makes 3, at 0, pi/2 and -pi/2 in this order
C4_TwoCallsWithM0 ==
    /\ last.fn = "rotosolve" => last.n = 2
    /\ last.fn = "opt_theta" =>
           last.n = 3 /\ last.probes = <<Zero, HalfPi, MinusHalfPi>>

\* C5: the value opt_theta or rotosolve has just left in params[d] lies in
\* (-pi, pi], and so does every entry of params after every completed cycle
C5_ParamsInHalfOpenRange ==
    /\ last.fn \in {"opt_theta", "rotosolve"} => InHalfOpen(params[Idx(last.d)])
    /\ (pc \in {"rsol_loop", "rsel_loop", "done"} /\ cycles >= 1)
           => \A k \in 1 .. D : InHalfOpen(params[k])

\* a Rotosolve run that began outside the interval has ended with an entry at pi:
\* M_0_plus = M_0_minus, and -pi/2 - pi/2 = -pi was brought to pi
C5_Witness ==
    /\ prog = "rotosolve"
    /\ pc = "done"
    /\ params[D] = Pi
    /\ last.fn = "opt_theta"

---------------------------------------------------------------------------
\* Rotosolve on a sinusoidal cost

\* the cost  sin(params[0]) + cos(params[1])
SinPlusCos == <<<<Amp, 0>>, <<0, Amp>>>>

\* C6: on a cost that is a sinusoid in params[d], the value opt_theta has just
\* left in params[d] minimizes the cost along that axis: no angle of SinAngles
\* gives a smaller cost, and the term of params[d] has the value -sqrt(A^2 + B^2),
\* below which A sin(t) + B cos(t) falls for no real t.  For the cost
\* sin(params[0]) + cos(params[1]) every completed cycle ends at [-pi/2, pi].
C6_SinusoidMinimum ==
    /\ last.fn = "opt_theta" =>
          /\ \A t \in SinAngles :
                SinCost(oracle.co, params)
                    <= SinCost(oracle.co, [params EXCEPT ![Idx(last.d)] = t])
          /\ LET c == oracle.co[Idx(last.d)]
             IN Term(c, params[Idx(last.d)]) = -(c[1] * c[1] + c[2] * c[2])
    /\ (oracle.co = SinPlusCos /\ cycles >= 1 /\ pc \in {"rsol_loop", "done"})
           => params = <<MinusHalfPi, Pi>>

\* the loop on sin(params[0]) + cos(params[1]) has ended at [-pi/2, pi]
C6_Witness ==
    /\ oracle.kind = "sin"
    /\ oracle.co = SinPlusCos
    /\ pc = "done"
    /\ last.fn = "opt_theta"
    /\ params = <<MinusHalfPi, Pi>>

---------------------------------------------------------------------------
\* Direct calls of opt_theta

\* C7: of two calls of opt_theta in a row on the same entry of params, with a
\* cost function that is a function of its arguments, the second leaves params
\* as the first left it; each call makes its 3 evaluations of the cost
C7_Idempotent ==
    /\ \A k \in 2 .. Len(done) :
          Idx(done[k].d) = Idx(done[k - 1].d) => done[k].p = done[k - 1].p
    /\ pc = "idle" => calls = 3 * Len(done)

\* two calls on the same index have returned, the first having changed params[d]
C7_Witness ==
    /\ Len(done) = 2
    /\ done[1].d = done[2].d
    /\ done[2].p = done[1].p
    /\ done[1].p \notin InitParams
    /\ calls = 6

\* C10: a call of opt_theta with d outside [0, D) ends in an error at its first
\* statement, before params is modified; it never goes on to evaluate the cost
C10_BadIndexFailsLoudly ==
    d \notin 0 .. D - 1 =>
        /\ pc \in {"ot_M0", "aborted"}
        /\ pc = "aborted" => err = "IndexError"

---------------------------------------------------------------------------
\* The optimization loops

\* C8: the loop ends after exactly n_steps iterations; every iteration appends
\* to costs first and runs one cycle after, so that entry k (from 0) of costs
\* was evaluated after k completed cycles, and nothing is appended after the
\* last cycle
C8_TrajectoryBeforeEachCycle ==
    /\ Len(recAt) = Len(costs)
    /\ \A k \in 1 .. Len(recAt) : recAt[k] = k - 1
    /\ cycles <= Len(costs) /\ Len(costs) <= cycles + 1
    /\ pc = "done" => (Len(costs) = n_steps /\ cycles = n_steps /\ i = n_steps)

\* a loop has ended with n_steps entries, the last one evaluated before the last cycle
C8_Witness ==
    /\ pc = "done"
    /\ Len(costs) = n_steps
    /\ cycles = n_steps
    /\ recAt[n_steps] = n_steps - 1

\* C9: while the assignment holds a tag that is none of X, Y, Z, no evaluation
\* of the cost runs a circuit and returns a value
C9_UnknownTagFailsLoudly ==
    (\E w \in 1 .. D : generators[w] \notin Tags) => (tape = << >> /\ costs = << >>)

====
